---- MODULE Spec2Model ----
(***************************************************************************)
(* Client-side authentication session (AuthProvider, hooks/useAuth.js) and *)
(* the axios request gateway it rides on (services/api.js).                *)
(*                                                                         *)
(* JavaScript is single-threaded: the code between two awaits runs         *)
(* atomically.  One action therefore models either the synchronous prefix  *)
(* of an operation up to its first await (a "start"), or the delivery of   *)
(* one network outcome: the gateway's response interceptor followed by the *)
(* continuation of the awaiting async function up to its next await or its *)
(* return (a "recv").  The backend is opaque: every outcome the transport  *)
(* can produce for a request is chosen nondeterministically.               *)
(***************************************************************************)
EXTENDS Naturals, FiniteSets, Sequences, Bags, TLC

\* ----------------------------------------------------------------- bounds
\* Number of operations (async calls) that may be in flight at once.
MaxInFlight == 2

\* Number of list requests of one page that may be in flight at once.
MaxFetches == 2

\* ------------------------------------------------------------ value sets
NoToken == "null"                 \* localStorage.getItem('token') === null
Tokens == {"T1", "T2"}            \* access_token values the backend issues
NoUser == "null"                  \* useState(null)
Profiles == {"P1", "P2"}          \* UserProfile objects returned by the backend
NoError == "null"                 \* useState(null)
Creds == {"alice", "bob"}         \* a username/password pair
NoCred == "-"

LoginPage == "/login"
Pages == {"/login", "/dashboard"}

\* error.response.status === 401
Unauthorized == 401

\* error.response?.data?.detail: missing, or a message
NoDetail == "undefined"
Detail == "Bad credentials"

LoginFailedMsg == "login failed, please retry"
RegisterFailedMsg == "register failed, please retry"
CreatedButLoginFailedMsg == "registered but login failed, please log in manually"

NoData == "-"
Void == "void"
ListData == "list"

\* A list page's filter: '' (none) or a status; the list shown: [] before
\* any response, then the list the backend returned for some params.
NoFilter == ""
Filters == {"", "open", "done"}
NoList == <<>>
ListFor(params) == <<"list", params>>
PageFailedMsg == "cannot load the list, please retry"

\* Endpoints of apiService used by the model.
EpLogin == "POST /api/auth/login"
EpRegister == "POST /api/auth/register"
EpLogout == "POST /api/auth/logout"
EpMe == "GET /api/auth/me"
EpTasks == "GET /api/tasks"
NoEp == "-"

\* ------------------------------------------------------------- responses
\* What the transport hands to the response interceptors for one request:
\* a 2xx response, an error response (error.response set), or a network
\* failure (error.response undefined).
OkResp(d) == [type |-> "ok", status |-> 200, detail |-> NoDetail, data |-> d]
ErrResp(s, d) == [type |-> "err", status |-> s, detail |-> d, data |-> NoData]
NetFail == [type |-> "net", status |-> 0, detail |-> NoDetail, data |-> NoData]
NoResp == [type |-> "-", status |-> 0, detail |-> NoDetail, data |-> NoData]

OkData(ep) ==
    CASE ep = EpLogin -> Tokens
      [] ep = EpRegister -> {"P1"}
      [] ep = EpMe -> Profiles
      [] ep = EpLogout -> {Void}
      [] OTHER -> {ListData}

\* The failures the model draws from: a rejection with a message, an
\* authorization failure, a server error without a message, no response.
Failures ==
    {ErrResp(400, Detail), ErrResp(Unauthorized, Detail), ErrResp(500, NoDetail), NetFail}

\* For the credential exchange also a rejection whose detail is the empty
\* string (which `||` replaces by the generic message).
EmptyDetail(ep) == IF ep = EpLogin THEN {ErrResp(400, "")} ELSE {}

Outcomes(ep) == {OkResp(d) : d \in OkData(ep)} \cup Failures \cup EmptyDetail(ep)

IsOk(resp) == resp.type = "ok"

\* -------------------------------------------------------------- gateway
NoHeader == <<>>
Bearer(tok) == <<"Bearer", tok>>

RequestInterceptorAlways(tok) == Bearer(tok)

\* api.interceptors.request: the Authorization header of an outgoing request
\* (if (token) config.headers.Authorization = `Bearer ${token}`)
RequestInterceptor(tok) == IF tok # NoToken THEN Bearer(tok) ELSE NoHeader

\* att: how many times a request interceptor has run on the request
NoReq == [ep |-> NoEp, hdr |-> NoHeader, body |-> NoCred, att |-> 0]

RequestHandlersTwice == <<"attach", "attach">>

\* api.interceptors.request.use(...): the handlers registered, in order
RequestHandlers == <<"attach">>

ResponseHandlersTwice == <<"on401", "on401">>

\* api.interceptors.response.use(...): the handlers registered, in order
ResponseHandlers == <<"on401">>

\* the request after the registered request handlers ran on it
RECURSIVE RunRequestHandlers(_, _, _)
RunRequestHandlers(hs, req, tok) ==
    IF hs = <<>> THEN req
    ELSE RunRequestHandlers(Tail(hs),
             [req EXCEPT !.hdr = RequestInterceptor(tok), !.att = @ + 1], tok)

\* api.<method>(url, body): the request as it leaves the gateway
Send(ep, body, tok) ==
    RunRequestHandlers(RequestHandlers,
                       [ep |-> ep, hdr |-> NoHeader, body |-> body, att |-> 0], tok)

IsAuthFailureFrom401Up(resp) == resp.type = "err" /\ resp.status >= Unauthorized

\* error.response?.status === 401
IsAuthFailure(resp) == resp.type = "err" /\ resp.status = Unauthorized

\* ------------------------------------------------------------- session
\* The state the handlers read and write, as one record:
\* localStorage 'token', window.location, and AuthProvider's four useState cells.
Session(t, l, u, a, ld, e) ==
    [token |-> t, location |-> l, user |-> u, isAuthenticated |-> a,
     loading |-> ld, error |-> e]

\* runs: how many times a response interceptor has run on the outcome
NoEffects == [cleared |-> FALSE, redirected |-> FALSE, runs |-> 0]

\* What an interceptor hands on: (response) => response, Promise.reject(error)
Fulfilled(resp) == [settle |-> "fulfilled", with |-> resp]
Rejected(resp) == [settle |-> "rejected", with |-> resp]
NoOut == [settle |-> "-", with |-> NoResp]

ResponseInterceptorResetsSession(resp, S) ==
    IF IsOk(resp)
    THEN [S |-> S, fx |-> NoEffects, out |-> Fulfilled(resp)]
    ELSE IF IsAuthFailure(resp)
         THEN [S |-> [S EXCEPT !.token = NoToken, !.location = LoginPage,
                               !.user = NoUser, !.isAuthenticated = FALSE],
               fx |-> [cleared |-> TRUE, redirected |-> TRUE],
               out |-> Rejected(resp)]
         ELSE [S |-> S, fx |-> NoEffects, out |-> Rejected(resp)]

ResponseInterceptorNoRedirect(resp, S) ==
    IF IsOk(resp)
    THEN [S |-> S, fx |-> NoEffects, out |-> Fulfilled(resp)]
    ELSE IF IsAuthFailure(resp)
         THEN [S |-> [S EXCEPT !.token = NoToken],
               fx |-> [cleared |-> TRUE, redirected |-> FALSE],
               out |-> Rejected(resp)]
         ELSE [S |-> S, fx |-> NoEffects, out |-> Rejected(resp)]

\* api.interceptors.response, run on one outcome with the session S:
\* the session it leaves, its calls of localStorage.removeItem and of the
\* window.location.href setter, and what it hands to the caller.
ResponseInterceptor(resp, S) ==
    IF IsOk(resp)
    THEN [S |-> S, fx |-> NoEffects, out |-> Fulfilled(resp)]
    ELSE IF IsAuthFailure(resp)
         THEN [S |-> [S EXCEPT !.token = NoToken, !.location = LoginPage],
               fx |-> [cleared |-> TRUE, redirected |-> TRUE],
               out |-> Rejected(resp)]
         ELSE [S |-> S, fx |-> NoEffects, out |-> Rejected(resp)]

\* the outcome after the registered response handlers ran on it, each on
\* what the one before handed on
RECURSIVE RunResponseHandlers(_, _)
RunResponseHandlers(hs, g) ==
    IF hs = <<>> THEN g
    ELSE LET h == ResponseInterceptor(g.out.with, g.S)
         IN RunResponseHandlers(Tail(hs),
                [S |-> h.S,
                 fx |-> [cleared |-> g.fx.cleared \/ h.fx.cleared,
                         redirected |-> g.fx.redirected \/ h.fx.redirected,
                         runs |-> g.fx.runs + 1],
                 out |-> h.out])

\* the gateway's handling of one outcome with the session S
Intercept(resp, S) ==
    RunResponseHandlers(ResponseHandlers,
        [S |-> S, fx |-> NoEffects,
         out |-> IF IsOk(resp) THEN Fulfilled(resp) ELSE Rejected(resp)])

\* --------------------------------------------------------- session store
Truthy(d) == d \notin {NoDetail, ""}

\* error.response?.data?.detail || fallback
ErrorMessage(resp, fallback) ==
    IF resp.type = "err" /\ Truthy(resp.detail) THEN resp.detail ELSE fallback

\* Results handed to the caller of an operation.
NoRet == [tag |-> "none", success |-> FALSE, error |-> NoError, user |-> NoData]
RetVoid == [tag |-> "undefined", success |-> FALSE, error |-> NoError, user |-> NoData]
RetOk == [tag |-> "result", success |-> TRUE, error |-> NoError, user |-> NoData]
RetOkUser(u) == [tag |-> "result", success |-> TRUE, error |-> NoError, user |-> u]
RetFail(msg) == [tag |-> "result", success |-> FALSE, error |-> msg, user |-> NoData]
RetSettled(out) ==
    [tag |-> out.settle, success |-> out.settle = "fulfilled", error |-> NoError,
     user |-> NoData]

CheckAuthSuccessKeepsLoading(S, data) ==
    [S EXCEPT !.user = data, !.isAuthenticated = TRUE]

\* checkAuth, try + finally: setUser(response.data); setIsAuthenticated(true); setLoading(false)
CheckAuthSuccess(S, data) ==
    [S EXCEPT !.user = data, !.isAuthenticated = TRUE, !.loading = FALSE]

CheckAuthFailureKeepsLoading(S) ==
    [S EXCEPT !.token = NoToken, !.user = NoUser, !.isAuthenticated = FALSE]

CheckAuthFailureKeepsToken(S) ==
    [S EXCEPT !.user = NoUser, !.isAuthenticated = FALSE, !.loading = FALSE]

\* checkAuth, catch + finally
CheckAuthFailure(S) ==
    [S EXCEPT !.token = NoToken, !.user = NoUser, !.isAuthenticated = FALSE,
              !.loading = FALSE]

CheckAuthHasTokenAlways(tok) == TRUE

\* checkAuth: const token = localStorage.getItem('token'); if (!token) ... return
CheckAuthHasToken(tok) == tok # NoToken

\* checkAuth, no token: setLoading(false); return
CheckAuthNoToken(S) == [S EXCEPT !.loading = FALSE]

LoginPersistNothing(S, tok) == S

\* login: localStorage.setItem('token', access_token)
LoginPersist(S, tok) == [S EXCEPT !.token = tok]

LoginSuccessFlagOnly(S, data) == [S EXCEPT !.isAuthenticated = TRUE]

LoginSuccessUserOnly(S, data) == [S EXCEPT !.user = data]

\* login: setUser(userResponse.data); setIsAuthenticated(true)
LoginSuccess(S, data) == [S EXCEPT !.user = data, !.isAuthenticated = TRUE]

LoginFailureGenericOnly(S, resp) == [S EXCEPT !.error = LoginFailedMsg]

LoginFailureRollsBack(S, resp) ==
    [S EXCEPT !.token = NoToken, !.error = ErrorMessage(resp, LoginFailedMsg)]

\* login, catch: setError(errorMessage)
LoginFailure(S, resp) == [S EXCEPT !.error = ErrorMessage(resp, LoginFailedMsg)]

\* register, catch: setError(errorMessage)
RegisterFailure(S, resp) == [S EXCEPT !.error = ErrorMessage(resp, RegisterFailedMsg)]

ClearErrorAndToken(S) == [S EXCEPT !.error = NoError, !.token = NoToken]

\* login / register: setError(null)
ClearError(S) == [S EXCEPT !.error = NoError]

LogoutFinallyKeepsToken(S) ==
    [S EXCEPT !.user = NoUser, !.isAuthenticated = FALSE, !.error = NoError]

LogoutFinallyTokenOnly(S) == [S EXCEPT !.token = NoToken, !.error = NoError]

LogoutFinallyComplains(S) ==
    [token |-> NoToken, location |-> S.location, user |-> NoUser,
     isAuthenticated |-> FALSE, loading |-> S.loading,
     error |-> IF S.isAuthenticated THEN NoError ELSE "Not logged in"]

\* logout, finally
LogoutFinally(S) ==
    [S EXCEPT !.token = NoToken, !.user = NoUser, !.isAuthenticated = FALSE,
              !.error = NoError]

\* ------------------------------------------------------------------ state
VARIABLES
    token,            \* localStorage 'token'
    location,         \* window.location
    user,             \* useState: user
    isAuthenticated,  \* useState: isAuthenticated
    loading,          \* useState: loading
    error,            \* useState: error
    mounted,          \* the mount effect (useEffect(..., [])) has run
    calls,            \* the async operations suspended at an await (a bag)
    ev,               \* the step just taken: its input, its effects, its result
    watch,            \* history: which history is recorded ("off", "overlap":
                      \* peer401, crowd and met of each call, "origin": bearer
                      \* and fetchedWith)
    fetchedWith,      \* history: the Authorization header of the request that
                      \* returned the current user
    filter,           \* a list page, useState: statusFilter (and its other filters)
    list,             \* a list page, useState: tasks / projects / logs
    pageLoading,      \* a list page, useState: loading
    pageError,        \* a list page, useState: error
    pageMounted,      \* a list page: its first effect has run
    fetches           \* a list page: the params of its list requests in flight (a bag)

\* the state of a list page (Tasks, Projects, AutomationLogs)
page == <<filter, list, pageLoading, pageError, pageMounted, fetches>>

vars == <<token, location, user, isAuthenticated, loading, error, mounted, calls, ev,
         watch, fetchedWith, page>>

Cur == Session(token, location, user, isAuthenticated, loading, error)

Commit(S) ==
    /\ token' = S.token
    /\ location' = S.location
    /\ user' = S.user
    /\ isAuthenticated' = S.isAuthenticated
    /\ loading' = S.loading
    /\ error' = S.error

\* A suspended operation: which operation it is, the endpoint whose response
\* it awaits, and its closure variables (cred: the credentials register will
\* log in with; regData: the creation response).  The remaining fields record
\* its history: solo (no other operation has been started
\* since it started), issued (the access_token its credential exchange
\* returned), peer401 (a request in flight together with its current request
\* has been answered 401), att (how many times a request interceptor ran on
\* its current request), crowd (more than one other operation has been in
\* flight during its life), met (for a login: the request it awaited when a
\* logout returned; for a logout: "login" when a login returned meanwhile),
\* after (a logout started right after a logout returned, nothing else in
\* flight), bearer (the Authorization header its current request carries).
\* peer401, crowd and met are recorded only while watch is "overlap", bearer only
\* while it is "origin".
Idle == [kind |-> "idle", pc |-> NoEp, cred |-> NoCred, regData |-> NoData,
         solo |-> FALSE, issued |-> NoToken, peer401 |-> FALSE, att |-> 0,
         crowd |-> FALSE, met |-> "-", after |-> FALSE, bearer |-> NoHeader]

\* the header of request req, for the history
Carried(req) == IF watch = "origin" THEN req.hdr ELSE NoHeader

\* no profile has been fetched
NoFetch == <<"none">>

InFlight == BagCardinality(calls)
HasFree == InFlight < MaxInFlight

NewCall(kind, ep, cred) ==
    [kind |-> kind, pc |-> ep, cred |-> cred, regData |-> NoData,
     solo |-> BagToSet(calls) = {}, issued |-> NoToken, peer401 |-> FALSE,
     att |-> IF ep = NoEp THEN 0 ELSE Send(ep, cred, token).att,
     crowd |-> watch = "overlap" /\ InFlight > 1, met |-> "-",
     after |-> /\ kind = "logout" /\ BagToSet(calls) = {}
               /\ ev.op = "recv" /\ ev.call.kind = "logout",
     bearer |-> IF ep = NoEp THEN NoHeader ELSE Carried(Send(ep, cred, token))]

Joined(c) == [c EXCEPT !.solo = FALSE, !.crowd = @ \/ (watch = "overlap" /\ ~c.solo)]
Peer401(c) == IF watch = "overlap" THEN [c EXCEPT !.peer401 = TRUE] ELSE c
Same(c) == c

One(c) == IF c = Idle THEN EmptyBag ELSE SetToBag({c})

\* calls after operation c was started: the others are no longer alone
Started(c) == BagOfAll(Joined, calls) (+) One(c)

\* calls after call c handled resp and became d (Idle: it returned)
Settled(c, d, resp) ==
    LET others == calls (-) SetToBag({c})
        Met(x) == IF watch # "overlap" \/ d # Idle THEN x
                  ELSE IF c.kind = "logout" /\ x.kind = "login" THEN [x EXCEPT !.met = x.pc]
                  ELSE IF c.kind = "login" /\ x.kind = "logout" THEN [x EXCEPT !.met = "login"]
                  ELSE x
        Mark(x) == IF IsAuthFailure(resp) THEN Met(Peer401(x)) ELSE Met(Same(x))
    IN BagOfAll(Mark, others) (+) One(d)

Event(op, c, resp, out, fx, sent, ret) ==
    [op |-> op, call |-> c, resp |-> resp, out |-> out, fx |-> fx, sent |-> sent,
     ret |-> ret]

InitSession ==
    /\ token \in Tokens \cup {NoToken}
    /\ location \in Pages
    /\ user = NoUser
    /\ isAuthenticated = FALSE
    /\ loading = TRUE
    /\ error = NoError
    /\ mounted = FALSE
    /\ calls = EmptyBag
    /\ fetchedWith = NoFetch
    /\ ev = Event("init", Idle, NoResp, NoOut, NoEffects, NoReq, NoRet)

\* a list page before its first effect: useState([]), useState(true),
\* useState(null), useState('')
InitPage ==
    /\ filter = NoFilter
    /\ list = NoList
    /\ pageLoading = TRUE
    /\ pageError = NoError
    /\ pageMounted = FALSE
    /\ fetches = EmptyBag

Init == InitSession /\ InitPage /\ watch = "off"

\* ------------------------------------------------------------ operations
\* checkAuth up to its first await
CheckAuth(op) ==
    IF CheckAuthHasToken(token)
    THEN LET c == NewCall("checkAuth", EpMe, NoCred)
         IN /\ HasFree
            /\ calls' = Started(c)
            /\ Commit(Cur)
            /\ ev' = Event(op, c, NoResp, NoOut, NoEffects,
                           Send(EpMe, NoCred, token), NoRet)
    ELSE /\ calls' = Started(Idle)
         /\ Commit(CheckAuthNoToken(Cur))
         /\ ev' = Event(op, NewCall("checkAuth", NoEp, NoCred), NoResp, NoOut,
                        NoEffects, NoReq, RetVoid)

\* useEffect(() => { checkAuth(); }, [])
Mount ==
    /\ ~mounted
    /\ mounted' = TRUE
    /\ UNCHANGED <<watch, fetchedWith, page>>
    /\ CheckAuth("mount")

\* value.checkAuth called by a consumer
CheckAuthCall ==
    /\ mounted
    /\ UNCHANGED <<mounted, watch, fetchedWith, page>>
    /\ CheckAuth("start")

\* login(username, password) up to its first await
LoginStart ==
    /\ mounted /\ HasFree
    /\ \E cr \in Creds :
        LET c == NewCall("login", EpLogin, NoCred)
        IN /\ calls' = Started(c)
           /\ Commit(ClearError(Cur))
           /\ ev' = Event("start", c, NoResp, NoOut, NoEffects,
                          Send(EpLogin, cr, token), NoRet)
    /\ UNCHANGED <<mounted, watch, fetchedWith, page>>

\* register(userData) up to its first await
RegisterStart ==
    /\ mounted /\ HasFree
    /\ \E cr \in Creds :
        LET c == NewCall("register", EpRegister, cr)
        IN /\ calls' = Started(c)
           /\ Commit(ClearError(Cur))
           /\ ev' = Event("start", c, NoResp, NoOut, NoEffects,
                          Send(EpRegister, cr, token), NoRet)
    /\ UNCHANGED <<mounted, watch, fetchedWith, page>>

\* logout() up to its await
LogoutStart ==
    /\ mounted /\ HasFree
    /\ LET c == NewCall("logout", EpLogout, NoCred)
       IN /\ calls' = Started(c)
          /\ Commit(Cur)
          /\ ev' = Event("start", c, NoResp, NoOut, NoEffects,
                         Send(EpLogout, NoCred, token), NoRet)
    /\ UNCHANGED <<mounted, watch, fetchedWith, page>>

\* a page's list request through the gateway (fetchTasks: apiService.getTasks)
FetchStart ==
    /\ mounted /\ HasFree
    /\ LET c == NewCall("fetch", EpTasks, NoCred)
       IN /\ calls' = Started(c)
          /\ Commit(Cur)
          /\ ev' = Event("start", c, NoResp, NoOut, NoEffects,
                         Send(EpTasks, NoCred, token), NoRet)
    /\ UNCHANGED <<mounted, watch, fetchedWith, page>>

\* The continuation of call c once the gateway has handed on `out`, from
\* session G (the session as the response interceptor left it): the session
\* it leaves, the call it becomes (Idle when it returned), the request it
\* sends and the result it returns.
Step(S, c, sent, ret) == [S |-> S, call |-> c, sent |-> sent, ret |-> ret]

Ok(out) == out.settle = "fulfilled"

LoginFailedRethrows(c, resp) == RetSettled(Rejected(resp))

LoginFailedPassesThrough(c, resp) == RetFail(ErrorMessage(resp, LoginFailedMsg))

\* what login's caller gets when login reports failure: register maps it to
\* its own fixed message
LoginFailed(c, resp) ==
    IF c.kind = "register" THEN RetFail(CreatedButLoginFailedMsg)
    ELSE RetFail(ErrorMessage(resp, LoginFailedMsg))

LoginExchangedSendsOldToken(G, c, out) ==
    IF Ok(out)
    THEN LET S1 == LoginPersist(G, out.with.data)
         IN Step(S1, [c EXCEPT !.pc = EpMe, !.issued = out.with.data, !.peer401 = FALSE,
                               !.att = Send(EpMe, NoCred, G.token).att,
                               !.bearer = Carried(Send(EpMe, NoCred, G.token))],
                 Send(EpMe, NoCred, G.token), NoRet)
    ELSE Step(LoginFailure(G, out.with), Idle, NoReq, LoginFailed(c, out.with))

\* login's body after the credential exchange settled
LoginExchanged(G, c, out) ==
    IF Ok(out)
    THEN LET S1 == LoginPersist(G, out.with.data)
         IN Step(S1, [c EXCEPT !.pc = EpMe, !.issued = out.with.data, !.peer401 = FALSE,
                               !.att = Send(EpMe, NoCred, S1.token).att,
                               !.bearer = Carried(Send(EpMe, NoCred, S1.token))],
                 Send(EpMe, NoCred, S1.token), NoRet)
    ELSE Step(LoginFailure(G, out.with), Idle, NoReq, LoginFailed(c, out.with))

LoginProfiledAsCreated(G, c, out) ==
    IF Ok(out)
    THEN Step(LoginSuccess(G, IF c.kind = "register" THEN c.regData ELSE out.with.data),
              Idle, NoReq, IF c.kind = "register" THEN RetOkUser(c.regData) ELSE RetOk)
    ELSE Step(LoginFailure(G, out.with), Idle, NoReq, LoginFailed(c, out.with))

\* login's body after the profile request settled
LoginProfiled(G, c, out) ==
    IF Ok(out)
    THEN Step(LoginSuccess(G, out.with.data), Idle, NoReq,
              IF c.kind = "register" THEN RetOkUser(c.regData) ELSE RetOk)
    ELSE Step(LoginFailure(G, out.with), Idle, NoReq, LoginFailed(c, out.with))

RegisterCreatedLogsInAnyway(G, c, out) ==
    LET S1 == ClearError(G)
    IN Step(S1, [c EXCEPT !.pc = EpLogin, !.cred = NoCred,
                          !.regData = out.with.data, !.peer401 = FALSE,
                          !.att = Send(EpLogin, c.cred, S1.token).att,
                          !.bearer = Carried(Send(EpLogin, c.cred, S1.token))],
            Send(EpLogin, c.cred, S1.token), NoRet)

\* register's body after the creation request settled
RegisterCreated(G, c, out) ==
    IF Ok(out)
    THEN LET S1 == ClearError(G)
         IN Step(S1, [c EXCEPT !.pc = EpLogin, !.cred = NoCred,
                               !.regData = out.with.data, !.peer401 = FALSE,
                               !.att = Send(EpLogin, c.cred, S1.token).att,
                               !.bearer = Carried(Send(EpLogin, c.cred, S1.token))],
                 Send(EpLogin, c.cred, S1.token), NoRet)
    ELSE Step(RegisterFailure(G, out.with), Idle, NoReq,
              RetFail(ErrorMessage(out.with, RegisterFailedMsg)))

\* checkAuth's body after the profile request settled
CheckAuthSettled(G, c, out) ==
    IF Ok(out)
    THEN Step(CheckAuthSuccess(G, out.with.data), Idle, NoReq, RetVoid)
    ELSE Step(CheckAuthFailure(G), Idle, NoReq, RetVoid)

\* logout's body after the invalidation request settled
LogoutSettled(G, c, out) == Step(LogoutFinally(G), Idle, NoReq, RetVoid)

\* a page's request settled: the page gets the response or the error
FetchSettled(G, c, out) == Step(G, Idle, NoReq, RetSettled(out))

Continue(G, c, out) ==
    CASE c.kind = "checkAuth" -> CheckAuthSettled(G, c, out)
      [] c.kind = "logout" -> LogoutSettled(G, c, out)
      [] c.kind = "fetch" -> FetchSettled(G, c, out)
      [] c.kind = "register" /\ c.pc = EpRegister -> RegisterCreated(G, c, out)
      [] c.kind \in {"login", "register"} /\ c.pc = EpLogin -> LoginExchanged(G, c, out)
      [] c.kind \in {"login", "register"} /\ c.pc = EpMe -> LoginProfiled(G, c, out)

\* history: the header under which the user that session S holds was
\* fetched, after call c handled `out` and left S
FetchedWith(c, out, S) ==
    IF watch # "origin" THEN fetchedWith
    ELSE IF S.user = NoUser THEN NoFetch
    ELSE IF c.pc = EpMe /\ Ok(out) THEN c.bearer
    ELSE fetchedWith

\* The outcome of the request that call c awaits arrives: the response
\* interceptor runs, then the awaiting function runs to its next await or to
\* its return.
ReceiveCall(c) ==
    /\ \E resp \in Outcomes(c.pc) :
         LET g == Intercept(resp, Cur)
             k == Continue(g.S, c, g.out)
         IN /\ Commit(k.S)
            /\ calls' = Settled(c, k.call, resp)
            /\ fetchedWith' = FetchedWith(c, g.out, k.S)
            /\ ev' = Event("recv", c, resp, g.out, g.fx, k.sent, k.ret)
    /\ UNCHANGED <<mounted, watch, page>>

Receive == \E c \in BagToSet(calls) : ReceiveCall(c)

Next ==
    \/ Mount
    \/ CheckAuthCall
    \/ LoginStart
    \/ RegisterStart
    \/ LogoutStart
    \/ FetchStart
    \/ Receive

Spec == Init /\ [][Next]_vars

\* The provider with the overlap history recorded, driven by login and logout
\* only (and the startup check).
InitOverlap == InitSession /\ InitPage /\ watch = "overlap"

NextOverlap ==
    \/ Mount
    \/ LoginStart
    \/ LogoutStart
    \/ Receive

SpecOverlap == InitOverlap /\ [][NextOverlap]_vars

\* The provider driven by its own operations, where the mount effect runs
\* and every session check that is awaiting its response eventually gets an
\* outcome (a response or a network failure): again and again no session
\* check is in flight.
CheckInFlight == \E c \in BagToSet(calls) : c.kind = "checkAuth"

NextLive ==
    \/ Mount
    \/ CheckAuthCall
    \/ LoginStart
    \/ RegisterStart
    \/ LogoutStart
    \/ Receive

SpecLive == Init /\ [][NextLive]_vars /\ WF_vars(Mount) /\ []<>(~CheckInFlight)

\* The same provider with the origin of the current user recorded instead.
InitOrigin == InitSession /\ InitPage /\ watch = "origin"

SpecOrigin == InitOrigin /\ [][NextOverlap]_vars

\* ---------------------------------------------------------- a list page
\* fetchTasks / fetchProjects / fetchLogs up to its await: setLoading(true),
\* then the request with the params built from the filter f
FetchList(f) ==
    /\ BagCardinality(fetches) < MaxFetches
    /\ pageLoading' = TRUE
    /\ fetches' = fetches (+) SetToBag({f})
    /\ UNCHANGED <<list, pageError>>

\* useEffect(() => { fetchTasks(); }, [statusFilter, ...]): first run
PageMount ==
    /\ ~pageMounted
    /\ pageMounted' = TRUE
    /\ FetchList(filter)
    /\ UNCHANGED <<filter, token, location, user, isAuthenticated, loading, error,
                   mounted, calls, ev, watch, fetchedWith>>

\* setStatusFilter(f) with a new value: the effect runs again
SetFilter ==
    /\ pageMounted
    /\ \E f \in Filters \ {filter} :
         /\ filter' = f
         /\ FetchList(f)
    /\ UNCHANGED <<pageMounted, token, location, user, isAuthenticated, loading, error,
                   mounted, calls, ev, watch, fetchedWith>>

\* fetchTasks after its await settled, for the request with params p:
\* setTasks(response.data.tasks || []); setError(null) / catch: setError(...);
\* finally: setLoading(false)
PageSettled(p, out) ==
    IF Ok(out)
    THEN [list |-> ListFor(p), pageError |-> NoError, pageLoading |-> FALSE]
    ELSE [list |-> list, pageError |-> PageFailedMsg, pageLoading |-> FALSE]

\* the outcome of one of the page's list requests arrives: the gateway's
\* response interceptor runs, then the awaiting fetch function
PageReceive ==
    /\ \E p \in BagToSet(fetches) :
         \E resp \in Outcomes(EpTasks) :
            LET g == Intercept(resp, Cur)
                k == PageSettled(p, g.out)
            IN /\ Commit(g.S)
               /\ list' = k.list
               /\ pageError' = k.pageError
               /\ pageLoading' = k.pageLoading
               /\ fetches' = fetches (-) SetToBag({p})
    /\ UNCHANGED <<filter, pageMounted, mounted, calls, ev, watch, fetchedWith>>

NextPage ==
    \/ PageMount
    \/ SetFilter
    \/ PageReceive

SpecPage == Init /\ [][NextPage]_vars


\* ------------------------------------------------------------- properties
\* The step just taken delivered an outcome to an operation of this kind
\* awaiting this endpoint.
Recv == ev.op = "recv"
RecvOf(kind, ep) == Recv /\ ev.call.kind = kind /\ ev.call.pc = ep

\* C1 (as stated): isAuthenticated is true exactly when a token is persisted
\* and user is set.
C1_AuthIffTokenAndUser ==
    isAuthenticated <=> (token # NoToken /\ user # NoUser)

\* C1 (amended): isAuthenticated is true exactly when user is set, and user
\* and isAuthenticated are only ever set by the step that handles a successful
\* 'who am I' response, user to the profile it returned.  A persisted token is
\* not implied.
C1_AuthIffUserValidated ==
    /\ [](isAuthenticated <=> user # NoUser)
    /\ [][(user' # user /\ user' # NoUser) \/ (isAuthenticated' /\ ~isAuthenticated)
            => /\ ev'.op = "recv" /\ ev'.call.pc = EpMe /\ IsOk(ev'.resp)
               /\ ev'.resp.data \in Profiles
               /\ user' = ev'.resp.data /\ isAuthenticated']_vars

\* C1 witness: Authenticated with a validated profile and no persisted token,
\* right after the gateway intercepted a 401 on a page's request.
C1_Witness ==
    /\ RecvOf("fetch", EpTasks) /\ ev.fx.cleared
    /\ isAuthenticated /\ user \in Profiles /\ token = NoToken

\* C2: a login run alone whose credential exchange is answered with an error
\* response (any status, 401 included) returns {success:false, error:<message>}
\* and leaves the persisted token as it was.
C2_RejectedLoginKeepsToken ==
    [][(ev'.op = "recv" /\ ev'.call.kind = "login" /\ ev'.call.pc = EpLogin
          /\ ev'.call.solo /\ ev'.resp.type = "err")
        => /\ ev'.ret = RetFail(ErrorMessage(ev'.resp, LoginFailedMsg))
           /\ token' = token]_vars

\* C3: of the requests that were in flight together and were each answered
\* 401, the first clears the token and redirects and the others do neither, so
\* that the token is cleared once and one redirect is triggered in total.
C3_OneClearOneRedirect ==
    (Recv /\ ev.resp.type = "err" /\ ev.resp.status = Unauthorized)
        => /\ ev.fx.cleared <=> ~ev.call.peer401
           /\ ev.fx.redirected <=> ~ev.call.peer401

\* C4: a login run alone whose credential exchange returned token T and whose
\* 'who am I' request returned profile P ends Authenticated with T persisted,
\* user = P, and returns {success:true}.
C4_LoginAloneSucceeds ==
    (RecvOf("login", EpMe) /\ ev.call.solo /\ IsOk(ev.resp))
        => /\ isAuthenticated
           /\ token = ev.call.issued /\ token \in Tokens
           /\ user = ev.resp.data
           /\ ev.ret = RetOk
           /\ BagToSet(calls) = {}

C4_Witness ==
    /\ RecvOf("login", EpMe) /\ ev.call.solo /\ IsOk(ev.resp)
    /\ token = "T2" /\ user = "P2" /\ isAuthenticated /\ ev.ret.success

\* C5: whatever the outcome of the invalidation request, the step in which
\* logout resumes leaves no persisted token, user = null, isAuthenticated = false.
C5_LogoutEndsAnonymous ==
    RecvOf("logout", EpLogout)
        => token = NoToken /\ user = NoUser /\ ~isAuthenticated

C5_Witness ==
    /\ RecvOf("logout", EpLogout) /\ ev.resp = NetFail
    /\ token = NoToken /\ user = NoUser /\ ~isAuthenticated

\* C6: the startup check with a persisted token issues one 'who am I' request;
\* when it succeeds the store is Authenticated with the returned profile and
\* loading = false; when it fails in any way the token is removed and the
\* store is Anonymous with loading = false; no further request is issued.
C6_StartupCheckWithToken ==
    /\ (ev.op = "mount" /\ token # NoToken)
         => ev.sent = Send(EpMe, NoCred, token) /\ InFlight = 1
    /\ (RecvOf("checkAuth", EpMe) /\ IsOk(ev.resp))
         => /\ ~loading /\ isAuthenticated /\ user = ev.resp.data
            /\ ev.sent = NoReq
    /\ (RecvOf("checkAuth", EpMe) /\ ~IsOk(ev.resp))
         => /\ token = NoToken
            /\ ~loading /\ ~isAuthenticated /\ user = NoUser
            /\ ev.sent = NoReq

C6_Witness ==
    /\ RecvOf("checkAuth", EpMe) /\ ev.resp = ErrResp(500, NoDetail)
    /\ token = NoToken /\ ~loading /\ ~isAuthenticated

\* C7: the startup check without a persisted token ends Anonymous
\* (loading = false, isAuthenticated = false) and issues no request.
C7_StartupCheckWithoutToken ==
    (ev.op = "mount" /\ token = NoToken)
        => /\ ~loading /\ ~isAuthenticated
           /\ ev.sent = NoReq
           /\ BagToSet(calls) = {}

C7_Witness ==
    ev.op = "mount" /\ token = NoToken /\ ~loading /\ ev.sent = NoReq

\* C8: every request leaving the gateway carries Authorization: Bearer <token>
\* with the token persisted at that moment, and no Authorization header when
\* none is persisted.  (Nothing changes the token after the send within the
\* step, so the token of the state reached is the token at the send.)
C8_BearerAttached ==
    ev.sent # NoReq
        => ev.sent.hdr = (IF token # NoToken THEN Bearer(token) ELSE NoHeader)

C8_Witness ==
    /\ ev.sent.ep = EpLogin /\ ev.sent.hdr = NoHeader /\ token = NoToken

\* C9: a 401 response to a request of any operation makes the gateway remove
\* the persisted token and set the location to the login page, and the
\* failure is still handed to the caller.
C9_UnauthorizedClearsAndRedirects ==
    (Recv /\ ev.resp.type = "err" /\ ev.resp.status = Unauthorized)
        => /\ ev.fx.cleared /\ ev.fx.redirected
           /\ token = NoToken /\ location = LoginPage
           /\ ev.out = Rejected(ev.resp)
           /\ ev.ret.tag \in {"rejected", "result", "undefined"}
           /\ ~ev.ret.success

C9_Witness ==
    /\ RecvOf("fetch", EpTasks) /\ ev.resp.status = Unauthorized
    /\ token = NoToken /\ location = LoginPage /\ ev.ret.tag = "rejected"

\* C10: for a success and for every failure other than a 401 the gateway
\* neither removes the token nor redirects, hands on the response or the error
\* it was given, and the request is not sent again; the location is unchanged,
\* and so is the whole session when the caller is a page.
C10_OtherOutcomesPassThrough ==
    [][(ev'.op = "recv"
          /\ ~(ev'.resp.type = "err" /\ ev'.resp.status = Unauthorized))
        => /\ ~ev'.fx.cleared /\ ~ev'.fx.redirected
           /\ location' = location
           /\ ev'.out = (IF ev'.resp.type = "ok" THEN Fulfilled(ev'.resp)
                         ELSE Rejected(ev'.resp))
           /\ ev'.sent.ep # ev'.call.pc
           /\ (ev'.call.kind = "fetch"
                 => /\ token' = token
                    /\ UNCHANGED <<user, isAuthenticated, loading, error>>
                    /\ ev'.sent = NoReq
                    /\ ev'.ret.tag = ev'.out.settle)]_vars

C10_Witness ==
    /\ RecvOf("fetch", EpTasks) /\ ev.resp = ErrResp(500, NoDetail)
    /\ token # NoToken /\ location # LoginPage /\ ev.ret.tag = "rejected"

\* C11: every request in flight has been through credential attachment
\* exactly once, and the step that delivers its outcome finds it so (the
\* attachment came before) and runs the authorization-failure interception
\* exactly once on that outcome, for every operation and endpoint.
C11_AttachOnceThenInterceptOnce ==
    /\ \A c \in BagToSet(calls) : c.att = 1
    /\ ev.sent # NoReq => ev.sent.att = 1
    /\ Recv => ev.call.att = 1 /\ ev.fx.runs = 1
    /\ ~Recv => ev.fx.runs = 0

C11_Witness ==
    /\ RecvOf("register", EpLogin) /\ ev.call.att = 1 /\ ev.fx.runs = 1
    /\ ev.sent.ep = EpMe /\ ev.sent.att = 1

StoreKinds == {"checkAuth", "login", "register", "logout"}

\* C12: no session store operation rejects to its caller: whatever the
\* outcome delivered, the operation either goes on to its next request or
\* returns a value, and a failure always makes it return.
C12_StoreNeverThrows ==
    /\ ev.call.kind \in StoreKinds => ev.ret.tag \in {"none", "result", "undefined"}
    /\ (Recv /\ ev.call.kind \in StoreKinds /\ ~IsOk(ev.resp))
         => ev.ret.tag \in {"result", "undefined"} /\ ev.sent = NoReq

C12_Witness ==
    /\ RecvOf("register", EpMe) /\ ev.resp = NetFail /\ ev.ret.tag = "result"

\* C13: every session store operation that returns, returns an object with
\* a boolean success and, when success is false, an error message.
C13_UniformResult ==
    (ev.call.kind \in StoreKinds /\ ev.ret # NoRet)
        => /\ ev.ret.tag = "result"
           /\ ev.ret.success \in BOOLEAN
           /\ ~ev.ret.success => ev.ret.error # NoError

\* C14: a logout called right after a logout returned, and run alone, leaves
\* the session exactly as the first one left it (token absent, user null,
\* isAuthenticated false, error null, loading as it was), whatever the
\* outcomes of the two invalidation requests.
C14_LogoutTwiceAsOnce ==
    [][(ev'.op = "recv" /\ ev'.call.kind = "logout" /\ ev'.call.after /\ ev'.call.solo)
        => /\ UNCHANGED <<token, user, isAuthenticated, error, loading>>
           /\ token' = NoToken /\ user' = NoUser /\ ~isAuthenticated'
           /\ error' = NoError]_vars

\* C14 witness: the second of two logouts in sequence returned after its
\* invalidation request was answered 401.
C14_Witness ==
    /\ RecvOf("logout", EpLogout) /\ ev.call.after /\ ev.call.solo
    /\ ev.resp = ErrResp(Unauthorized, Detail)
    /\ token = NoToken /\ user = NoUser /\ ~isAuthenticated /\ error = NoError

\* C15: a register run alone whose creation, credential exchange and profile
\* fetch all succeed ends in the session a login run alone ends in after the
\* same exchange and profile responses: the issued token persisted, user the
\* fetched profile, isAuthenticated true, error null, loading as it was.
C15_RegisterEndsAsLogin ==
    [][(ev'.op = "recv" /\ ev'.call.kind \in {"login", "register"}
          /\ ev'.call.pc = EpMe /\ ev'.call.solo /\ IsOk(ev'.resp))
        => <<token', user', isAuthenticated', error', loading'>>
             = <<ev'.call.issued, ev'.resp.data, TRUE, NoError, loading>>]_vars

\* C15 witness: a register run alone completed, and the profile fetched is
\* not the record the creation request returned.
C15_Witness ==
    /\ RecvOf("register", EpMe) /\ IsOk(ev.resp) /\ ev.call.solo
    /\ ev.call.regData # ev.resp.data
    /\ token = ev.call.issued /\ user = ev.resp.data /\ isAuthenticated
    /\ error = NoError

\* C16: while a login or a register awaits a response, loading is true, and
\* loading is true when the startup check sends its request.
C16_LoadingWhileOutstanding ==
    /\ \A c \in BagToSet(calls) : c.kind \in {"login", "register"} => loading
    /\ (ev.op = "mount" /\ ev.sent # NoReq) => loading

SessionKinds == {"checkAuth", "login", "register"}

C18_CreatedButLoginFailed ==
    (Recv /\ ev.call.kind = "register" /\ ev.call.pc \in {EpLogin, EpMe}
       /\ ~IsOk(ev.resp))
        => /\ ev.ret = RetFail(CreatedButLoginFailedMsg)
           /\ ev.sent = NoReq

\* C18 witness: the profile fetch of register's chained login failed with
\* an error response carrying a detail, and register reported the fixed
\* message.
C18_Witness ==
    /\ RecvOf("register", EpMe) /\ ev.resp = ErrResp(400, Detail)
    /\ ev.call.regData \in Profiles
    /\ ev.ret = RetFail(CreatedButLoginFailedMsg) /\ ev.sent = NoReq

\* The step just taken returned a login whose whole life overlapped exactly
\* one other operation, a logout that returned before it, with a successful
\* profile response.
LoginLast ==
    /\ RecvOf("login", EpMe) /\ IsOk(ev.resp)
    /\ ~ev.call.crowd /\ ev.call.met \in {EpLogin, EpMe}

\* The step just taken returned a logout whose whole life overlapped exactly
\* one other operation, a login that returned before it.
LogoutLast ==
    /\ RecvOf("logout", EpLogout)
    /\ ~ev.call.crowd /\ ev.call.met = "login"

Anonymous == token = NoToken /\ user = NoUser /\ ~isAuthenticated

\* C19 (as stated): when a login and a logout overlap, the session ends
\* Authenticated with the login's token persisted if the login's last response
\* is handled last, and Anonymous with no token if the logout's is.
C19_LastResponseWins ==
    /\ LoginLast => isAuthenticated /\ user = ev.resp.data /\ token = ev.call.issued
    /\ LogoutLast => Anonymous

\* C19 (amended): when a login and a logout overlap, a logout handled last
\* leaves the session Anonymous with no token; a login whose profile response
\* is handled last leaves isAuthenticated true and user set, with the login's
\* token persisted only if the logout returned before the credential
\* exchange was answered, and no token persisted if it returned between the
\* exchange and the profile response.
C19_LastResponseWinsButToken ==
    /\ LoginLast => /\ isAuthenticated /\ user = ev.resp.data
                    /\ token = IF ev.call.met = EpLogin THEN ev.call.issued ELSE NoToken
    /\ LogoutLast => Anonymous

\* C19 witness: the logout returned between the login's exchange and profile
\* responses; the login ended authenticated with no persisted token.
C19_Witness ==
    /\ LoginLast /\ ev.call.met = EpMe /\ ev.call.issued \in Tokens
    /\ isAuthenticated /\ token = NoToken /\ BagToSet(calls) = {}

\* C20 (as stated): a login run alone whose credential exchange returned
\* token T and whose profile fetch fails returns {success:false, error},
\* leaves user and isAuthenticated as they were, and leaves T persisted.
C20_FailedProfileKeepsToken ==
    [][(ev'.op = "recv" /\ ev'.call.kind = "login" /\ ev'.call.pc = EpMe
          /\ ev'.call.solo /\ ~IsOk(ev'.resp))
        => /\ ev'.ret = RetFail(ErrorMessage(ev'.resp, LoginFailedMsg))
           /\ UNCHANGED <<user, isAuthenticated>>
           /\ token' = ev'.call.issued]_vars

\* C20 (amended): as stated, except that when the profile fetch is answered
\* 401 the gateway removes the token just persisted and redirects to the
\* login page; for every other failure T stays persisted.
C20_FailedProfileKeepsTokenUnless401 ==
    [][(ev'.op = "recv" /\ ev'.call.kind = "login" /\ ev'.call.pc = EpMe
          /\ ev'.call.solo /\ ~IsOk(ev'.resp))
        => /\ ev'.ret = RetFail(ErrorMessage(ev'.resp, LoginFailedMsg))
           /\ UNCHANGED <<user, isAuthenticated>>
           /\ token = ev'.call.issued
           /\ IF ev'.resp.type = "err" /\ ev'.resp.status = Unauthorized
              THEN token' = NoToken /\ location' = LoginPage
              ELSE token' = ev'.call.issued /\ location' = location]_vars

\* C20 witness: the profile fetch of a login run alone failed without a
\* response; login reported failure and the issued token is still persisted.
C20_Witness ==
    /\ RecvOf("login", EpMe) /\ ev.call.solo /\ ev.resp = NetFail
    /\ ev.ret = RetFail(LoginFailedMsg)
    /\ ev.call.issued \in Tokens /\ token = ev.call.issued

\* C21: the persisted token changes only in a step that (a) handles a
\* successful credential exchange of login, alone or chained from register,
\* and writes the returned token, (b) handles a failed startup/session check,
\* (c) returns a logout, or (d) passes a 401 through the gateway; (b)-(d)
\* clear it.  register's creation step (unless answered 401, which is (d))
\* and a successful checkAuth leave it as it was.
C21_FourTokenWriters ==
    /\ [][token' # token
            => /\ ev'.op = "recv"
               /\ \/ /\ ev'.call.kind \in {"login", "register"}
                     /\ ev'.call.pc = EpLogin /\ IsOk(ev'.resp)
                     /\ token' = ev'.resp.data
                  \/ /\ ev'.call.kind = "checkAuth" /\ ~IsOk(ev'.resp)
                     /\ token' = NoToken
                  \/ /\ ev'.call.kind = "logout"
                     /\ token' = NoToken
                  \/ /\ ev'.resp.type = "err" /\ ev'.resp.status = Unauthorized
                     /\ ev'.fx.cleared /\ token' = NoToken]_vars
    /\ [][(ev'.op = "recv"
             /\ \/ ev'.call.pc = EpRegister
                     /\ ~(ev'.resp.type = "err" /\ ev'.resp.status = Unauthorized)
                \/ ev'.call.kind = "checkAuth" /\ IsOk(ev'.resp))
            => token' = token]_vars

\* C21 witness: the credential exchange of register's chained login
\* succeeded and the returned token is persisted and attached to the profile
\* request.
C21_Witness ==
    /\ RecvOf("register", EpLogin) /\ IsOk(ev.resp)
    /\ token = ev.resp.data /\ token \in Tokens
    /\ ev.sent.ep = EpMe /\ ev.sent.hdr = Bearer(token)

\* C22: the gateway's handling of a 401 changes only the persisted token and
\* the location: whatever the session, it hands on a session with the same
\* user, isAuthenticated, loading and error; and a step that delivers a 401
\* to a page's request removes the token, moves to the login page and leaves
\* those four as they were.
C22_GatewayTouchesTokenAndLocationOnly ==
    /\ [][LET g == Intercept(ErrResp(Unauthorized, Detail), Cur)
           IN g.S = [Cur EXCEPT !.token = NoToken, !.location = LoginPage]]_vars
    /\ [][(ev'.op = "recv" /\ ev'.call.kind = "fetch"
             /\ ev'.resp.type = "err" /\ ev'.resp.status = Unauthorized)
            => /\ UNCHANGED <<user, isAuthenticated, loading, error>>
               /\ token' = NoToken /\ location' = LoginPage]_vars

\* C22 witness: a 401 on a page's request left the store authenticated, with
\* a profile, while the token is gone and the client is on the login page.
C22_Witness ==
    /\ RecvOf("fetch", EpTasks)
    /\ ev.resp.type = "err" /\ ev.resp.status = Unauthorized
    /\ ev.fx.redirected /\ location = LoginPage
    /\ isAuthenticated /\ user \in Profiles /\ token = NoToken /\ ~loading

\* C23: the step of a login that handles a successful credential exchange
\* persists the returned token and then sends the profile request, which
\* carries that token as bearer credential, and leaves user and
\* isAuthenticated as they were; the login does not return in that step.
\* user and isAuthenticated change only in the later step that handles the
\* successful profile response.
C23_PersistThenFetchThenAuthenticate ==
    /\ [][(ev'.op = "recv" /\ ev'.call.kind = "login" /\ ev'.call.pc = EpLogin
             /\ IsOk(ev'.resp))
            => /\ token' = ev'.resp.data
               /\ ev'.sent.ep = EpMe
               /\ ev'.sent.hdr = Bearer(ev'.resp.data)
               /\ ev'.ret = NoRet
               /\ UNCHANGED <<user, isAuthenticated>>]_vars
    /\ [][(ev'.op = "recv" /\ ev'.call.kind = "login"
             /\ (user' # user \/ isAuthenticated' # isAuthenticated))
            => /\ ev'.call.pc = EpMe /\ IsOk(ev'.resp)
               /\ ev'.call.issued \in Tokens
               /\ user' = ev'.resp.data /\ isAuthenticated']_vars

\* C23 witness: a login run alone by a client that is neither authenticated
\* nor on the issued token has just persisted T2 and sent the profile
\* request with it.
C23_Witness ==
    /\ RecvOf("login", EpLogin) /\ ev.resp = OkResp("T2") /\ ev.call.solo
    /\ token = "T2" /\ ev.sent = Send(EpMe, NoCred, "T2")
    /\ ~isAuthenticated /\ user = NoUser

\* C24: the step of a register that handles the outcome of its creation
\* request sends the credential exchange, with the credentials register was
\* given, exactly when the creation succeeded; when it failed the step sends
\* nothing, leaves user and isAuthenticated as they were and returns
\* {success:false, error} with the server's detail if there is one and the
\* generic registration message otherwise.  A register sends a credential
\* exchange or a profile request in no other way.
C24_RegisterChainsLoginIffCreated ==
    /\ [][(ev'.op = "recv" /\ ev'.call.kind = "register" /\ ev'.call.pc = EpRegister)
            => IF IsOk(ev'.resp)
               THEN /\ ev'.sent.ep = EpLogin
                    /\ ev'.call.cred \in Creds /\ ev'.sent.body = ev'.call.cred
                    /\ ev'.ret = NoRet
               ELSE /\ ev'.sent = NoReq
                    /\ UNCHANGED <<user, isAuthenticated>>
                    /\ ev'.ret = RetFail(IF ev'.resp.type = "err"
                                            /\ ev'.resp.detail \notin {NoDetail, ""}
                                         THEN ev'.resp.detail
                                         ELSE RegisterFailedMsg)]_vars
    /\ [][(ev'.call.kind = "register" /\ ev'.sent.ep = EpLogin)
            => ev'.op = "recv" /\ ev'.call.pc = EpRegister /\ IsOk(ev'.resp)]_vars
    /\ [][(ev'.call.kind = "register" /\ ev'.sent.ep = EpMe)
            => ev'.op = "recv" /\ ev'.call.pc = EpLogin /\ IsOk(ev'.resp)]_vars

\* C24 witness: the creation request of a register given bob's credentials
\* succeeded and the credential exchange went out with bob's credentials.
C24_Witness ==
    /\ RecvOf("register", EpRegister) /\ IsOk(ev.resp)
    /\ ev.call.cred = "bob" /\ ev.sent.ep = EpLogin /\ ev.sent.body = "bob"

\* C25: the step in which a login fails, at the credential exchange or at the
\* profile fetch, leaves user and isAuthenticated as they were, returns
\* {success:false, error} with error the detail of the error response when
\* it has a non-empty one and the generic login message otherwise (network
\* failure included), and stores the same message in the error field.
C25_LoginFailureMessage ==
    [][(ev'.op = "recv" /\ ev'.call.kind = "login" /\ ~IsOk(ev'.resp))
        => LET msg == IF ev'.resp.type = "err" /\ ev'.resp.detail \notin {NoDetail, ""}
                      THEN ev'.resp.detail ELSE LoginFailedMsg
           IN /\ ev'.call.pc \in {EpLogin, EpMe}
              /\ UNCHANGED <<user, isAuthenticated>>
              /\ ev'.ret = RetFail(msg)
              /\ error' = msg
              /\ ev'.sent = NoReq]_vars

\* C25 witness: the profile fetch of a login by an authenticated client was
\* rejected with a detail; the detail is returned and stored, the profile
\* stays.
C25_Witness ==
    /\ RecvOf("login", EpMe) /\ ev.resp = ErrResp(400, Detail)
    /\ ev.ret = RetFail(Detail) /\ error = Detail
    /\ isAuthenticated /\ user \in Profiles

\* C26: whenever isAuthenticated is true, user is a profile (not null),
\* whatever operations are in flight.
C26_AuthenticatedHasUser == isAuthenticated => user \in Profiles

\* C26 witness: a login that overlapped another operation has just made the
\* session authenticated, with the profile its request returned.
C26_Witness ==
    /\ RecvOf("login", EpMe) /\ IsOk(ev.resp) /\ ~ev.call.solo
    /\ isAuthenticated /\ user = ev.resp.data /\ BagToSet(calls) # {}

\* C27: whenever no operation is in flight and the session is authenticated
\* with a token persisted, the persisted token is the one the request that
\* returned the current user carried.
C27_TokenIsTheUsersToken ==
    (BagToSet(calls) = {} /\ isAuthenticated /\ token # NoToken)
        => fetchedWith = Bearer(token)

\* C28: when a login or a register returns {success:false, error:e}, the
\* error field holds e.
C28_ReturnedErrorIsStored ==
    (Recv /\ ev.call.kind \in {"login", "register"}
       /\ ev.ret.tag = "result" /\ ~ev.ret.success)
        => error = ev.ret.error

\* C29: provided the mount effect runs and the startup check gets an outcome,
\* loading eventually becomes false and stays false from then on, whatever
\* logins, registers, logouts and session checks follow.
C29_LoadingSettles == <>[](~loading)

\* C29 witness: loading is false while a register started after the startup
\* check settled is in flight.
C29_Witness ==
    /\ mounted /\ ~loading
    /\ ev.op = "start" /\ ev.call.kind = "register" /\ ev.call.solo
    /\ token \in Tokens

====
